---- MODULE Spec2Model ----
(***************************************************************************)
(* A model of webext-messenger's caller (messenger, manageConnection,      *)
(* manageMessage and its retry loop) and receiver (onMessageListener,      *)
(* registerMethods) over the host message bus.                             *)
(*                                                                         *)
(* Values are kept in uniform records so that any two of them can be       *)
(* compared: an error is [instance, name, message], an error message is a  *)
(* sequence of string parts (so that startsWith is a test on the first     *)
(* part), a target is [page, tabId] with "" / 0 for a property that is     *)
(* not there.                                                              *)
(***************************************************************************)
EXTENDS Integers, Sequences, FiniteSets, TLC

\* ------------------------------------------------------------- bounds
\* Frames that may be open at once: a call plus the calls issued by the
\* receivers that forward it.
MaxDepth == 2
\* Entries of one registerMethods batch.
MaxBatch == 2
\* The least time the host takes to settle one delivery attempt.
AttemptTime == 1000

\* ------------------------------------------------------------ contexts
Contexts == {"background", "contentScript"}
\* isBackground() of webext-detect-page
isBackground(c) == c = "background"
\* browser.tabs is there in extension pages, not in content scripts
hasTabs(c) == c = "background"
Methods == {"getA", "failB"}
\* The functions application code registers: one resolves, one throws.
HandlerFns == {"returnsA", "throwsE"}

NoTarget == [page |-> "", tabId |-> 0]
backgroundTarget == [page |-> "background", tabId |-> 0]
optionsTarget == [page |-> "options", tabId |-> 0]
\* the tab the content script lives in
tabTarget == [page |-> "", tabId |-> 1]
Targets == {backgroundTarget, optionsTarget, tabTarget}

\* "page" in target
PageInTarget(target) == target.page # ""
\* typeof target.tabId === "number"
TabIdIsNumber(target) == target.tabId # 0
\* JSON.stringify(target)
JSONstringify(target) ==
  IF PageInTarget(target) THEN "{\"page\":\"" \o target.page \o "\"}"
  ELSE "{\"tabId\":1}"

\* ------------------------------------------------------------ errors
NoError == [instance |-> "", name |-> "", message |-> <<>>]
_errorNonExistingTarget ==
  <<"Could not establish connection. Receiving end does not exist.">>
_errorTargetClosedEarly ==
  <<"A listener indicated an asynchronous response by returning true, but the message channel closed before a response was received">>
errorTargetClosedEarly == <<"The target was closed before receiving a response">>
errorTabDoesntExist == <<"The tab doesn't exist">>
NoHandlersRegistered == <<"No handlers registered in ", "receiver">>
OtherHostError == <<"Some other host error">>

\* new MessengerError(message)
MessengerError(message) ==
  [instance |-> "MessengerError", name |-> "MessengerError", message |-> message]
\* new Error(message)
Error(message) == [instance |-> "Error", name |-> "Error", message |-> message]
\* what the throwing handler throws: a custom error class
CustomError ==
  [instance |-> "CustomError", name |-> "CustomError", message |-> <<"boom">>]

ErrTargetNotFound(target, type) ==
  MessengerError(<<"The target ", JSONstringify(target), " for ", type, " was not found">>)
ErrNotAvailable(target, type) ==
  MessengerError(<<"Messenger was not available in the target ", JSONstringify(target), " for ", type>>)
ErrConflict(type) ==
  MessengerError(<<"Conflict: The message ", type, " was handled by a third-party listener">>)
ErrNoLocalHandler(type) ==
  MessengerError(<<"No handler registered locally for ", type>>)
ErrWrongContext(type, target) ==
  MessengerError(<<"Message ", type, " sent to wrong context, it can't be forwarded to ", JSONstringify(target)>>)
ErrAlreadySet(type) ==
  MessengerError(<<"Handler already set for ", type>>)

\* String(message).startsWith(prefix)
StartsWith(message, prefix) == Len(message) >= 1 /\ message[1] = prefix

\* serializeError: a plain object with the error's name and message
serializeError(error) ==
  [instance |-> "Object", name |-> error.name, message |-> error.message]
\* deserializeError: an Error carrying the serialized name and message
deserializeError(obj) ==
  [instance |-> "Error", name |-> obj.name, message |-> obj.message]

\* ------------------------------------------------- envelopes, responses
\* The property names under which the two halves keep the protocol tag.
SenderTagKey == "__webextMessenger"
ReceiverTagKey == "__webext_messenger__"
TagKeys == {SenderTagKey, ReceiverTagKey, ""}

\* makeMessage(type, args, target, options)
makeMessage(type, target, options) ==
  [isObject |-> TRUE, tagKey |-> SenderTagKey, typeIsString |-> TRUE,
   type |-> type, argsIsArray |-> TRUE, target |-> target,
   isNotification |-> options]

NoMessage ==
  [isObject |-> FALSE, tagKey |-> "", typeIsString |-> FALSE, type |-> "",
   argsIsArray |-> FALSE, target |-> NoTarget, isNotification |-> FALSE]

\* isMessengerMessage(message)
isMessengerMessage(message) ==
  /\ message.isObject
  /\ message.typeIsString
  /\ message.tagKey = ReceiverTagKey
  /\ message.argsIsArray

Undefined ==
  [kind |-> "undefined", tagKey |-> "", hasError |-> FALSE, value |-> "",
   error |-> NoError]
\* a reply that is no object at all (true, a string, a number)
Primitive ==
  [kind |-> "primitive", tagKey |-> "", hasError |-> FALSE, value |-> "",
   error |-> NoError]
ValueResponse(tagKey, value) ==
  [kind |-> "object", tagKey |-> tagKey, hasError |-> FALSE, value |-> value,
   error |-> NoError]
ErrorResponse(tagKey, error) ==
  [kind |-> "object", tagKey |-> tagKey, hasError |-> TRUE, value |-> "",
   error |-> error]

\* isMessengerResponse(response)
isMessengerResponse(response) ==
  response.kind = "object" /\ response.tagKey = SenderTagKey

\* ------------------------------------------------------------ results
Pending == [kind |-> "pending", value |-> "", error |-> NoError]
Void == [kind |-> "void", value |-> "", error |-> NoError]
Return(value) == [kind |-> "return", value |-> value, error |-> NoError]
Throw(error) == [kind |-> "throw", value |-> "", error |-> error]

\* handler.apply(meta, args): what the registered function does
HandlerApply(fn) ==
  IF fn = "returnsA" THEN Return("A") ELSE Throw(CustomError)

\* ------------------------------------------------------------ registry
\* handlers: a Map, kept as a set of <<type, fn>> entries
HandlersHas(map, type) == \E e \in map : e[1] = type
HandlersGet(map, type) ==
  IF HandlersHas(map, type) THEN (CHOOSE e \in map : e[1] = type)[2] ELSE ""
HandlersSet(map, type, fn) == {e \in map : e[1] # type} \cup {<<type, fn>>}

\* registerMethods setting every entry without the handlers.has check
RECURSIVE RegisterLoopOverwrite(_, _, _)
RegisterLoopOverwrite(map, methods, i) ==
  IF i > Len(methods) THEN [map |-> map, threw |-> NoError]
  ELSE RegisterLoopOverwrite(HandlersSet(map, methods[i][1], methods[i][2]),
                             methods, i + 1)

\* registerMethods looking for a registered name before it sets any entry
RegisterLoopAtomic(map, methods, i) ==
  LET dup == {j \in i..Len(methods) : HandlersHas(map, methods[j][1])} IN
  IF dup # {}
  THEN [map |-> map,
        threw |-> ErrAlreadySet(methods[CHOOSE j \in dup : \A k \in dup : j <= k][1])]
  ELSE [map |-> map \cup {methods[j] : j \in i..Len(methods)}, threw |-> NoError]

\* registerMethods' loop over Object.entries(methods), from entry i on:
\* the registry it leaves and the error it threw, if any
RECURSIVE RegisterLoop(_, _, _)
RegisterLoop(map, methods, i) ==
  IF i > Len(methods) THEN [map |-> map, threw |-> NoError]
  ELSE IF HandlersHas(map, methods[i][1])
       THEN [map |-> map, threw |-> ErrAlreadySet(methods[i][1])]
       ELSE RegisterLoop(HandlersSet(map, methods[i][1], methods[i][2]), methods, i + 1)

\* The objects application code passes to registerMethods: up to MaxBatch
\* entries, each property name once.
Entries == Methods \X HandlerFns
Batches ==
  {m \in UNION {[1..n -> Entries] : n \in 1..MaxBatch} :
     \A i, j \in DOMAIN m : i # j => m[i][1] # m[j][1]}

\* ------------------------------------------------------- retry options
minTimeout == 100
\* factor 1.3, in tenths
factorTenths == 13
maxRetryTime == 4000
\* p-retry's default number of retries
retries == 10

\* The delay before the retry that follows failed attempt k:
\* Math.round(minTimeout * factor^(k-1)), computed in thousandths
RECURSIVE TimeoutMilli(_)
TimeoutMilli(k) ==
  IF k <= 1 THEN minTimeout * 1000 ELSE (TimeoutMilli(k - 1) * factorTenths) \div 10
Timeout(k) == (TimeoutMilli(k) + 500) \div 1000

\* Time is only ever compared with maxRetryTime: it saturates there.
Later(elapsed, dt) ==
  IF elapsed + dt >= maxRetryTime THEN maxRetryTime ELSE elapsed + dt
\* How long the host may take to settle one delivery attempt.
Durations == {AttemptTime, maxRetryTime}

\* ------------------------------------------------- the caller's decisions
\* messenger, lines 198-199: the call is answered from the local registry
IsLocalBypass(c, target) ==
  PageInTarget(target) /\ target.page = "background" /\ isBackground(c)

\* messenger sending every call through the host, its own context included
ViaNoBypass(c, target) ==
  CASE PageInTarget(target) -> "runtime"
    [] ~hasTabs(c) -> "runtime"
    [] OTHER -> "tabs"

\* messenger, lines 198-259: the host primitive the call is sent with
Via(c, target) ==
  CASE IsLocalBypass(c, target) -> "local"
    [] PageInTarget(target) -> "runtime"
    [] ~hasTabs(c) -> "runtime"
    [] OTHER -> "tabs"

\* manageConnection handing every call to manageMessage, notifications too
UsesRetryLoopAlways(isNotification) == TRUE

\* manageConnection, lines 67-69: the call is handed to manageMessage
UsesRetryLoop(isNotification) == ~isNotification

\* manageMessage, lines 98-116: what the attempt throws for a response that
\* is no MessengerResponse
AttemptError(response, target, type) ==
  IF response.kind = "undefined"
  THEN IF PageInTarget(target) THEN ErrTargetNotFound(target, type)
       ELSE ErrNotAvailable(target, type)
  ELSE ErrConflict(type)

\* onFailedAttempt retrying MessengerErrors whatever the target
ShouldRetryAnyTarget(target, error) ==
  \/ error.instance = "MessengerError"
  \/ error.message = _errorNonExistingTarget
  \/ StartsWith(error.message, "No handlers registered in ")

\* onFailedAttempt retrying every failure of a call to the background page
ShouldRetryBackgroundAlways(target, error) ==
  \/ target.page = "background"
  \/ error.instance = "MessengerError"
  \/ error.message = _errorNonExistingTarget
  \/ StartsWith(error.message, "No handlers registered in ")

\* onFailedAttempt, lines 127-134: the failure is one the loop retries
ShouldRetry(target, error) ==
  \/ target.page # "background" /\ error.instance = "MessengerError"
  \/ error.message = _errorNonExistingTarget
  \/ StartsWith(error.message, "No handlers registered in ")

\* onFailedAttempt retrying without the doesTabExist check
AsksTabExistsNever(c, target) == FALSE

\* onFailedAttempt, lines 136-137: doesTabExist is asked before the retry
AsksTabExists(c, target) == hasTabs(c) /\ TabIdIsNumber(target)

\* operation.retry(error) counting the retries and not the time
OperationRetryIgnoringTime(elapsed, attemptCount) == attemptCount <= retries

\* p-retry's operation.retry(error): another attempt is scheduled
OperationRetry(elapsed, attemptCount) ==
  elapsed < maxRetryTime /\ attemptCount <= retries

\* manageMessage rethrowing whatever pRetry rejected with
CatchErrorAsIs(error, target, type) == error

\* manageMessage, lines 149-157: the error the call rejects with
CatchError(error, target, type) ==
  IF error.message = _errorNonExistingTarget
  THEN ErrTargetNotFound(target, type)
  ELSE error

\* manageMessage, lines 159-165: the call's result for a MessengerResponse
ResponseResult(response) ==
  IF response.hasError THEN Throw(deserializeError(response.error))
  ELSE Return(response.value)

\* ------------------------------------------------ the receiver's decisions
\* onMessageListener forwarding without looking for browser.tabs
ListenerPathNoTabsCheck(c, message, map) ==
  CASE ~isMessengerMessage(message) -> "ignored"
    [] message.target # NoTarget -> "forward"
    [] ~HandlersHas(map, message.type) -> "noHandler"
    [] OTHER -> "local"

\* onMessageListener, lines 356-389: the path taken for a message in context c
ListenerPath(c, message, map) ==
  CASE ~isMessengerMessage(message) -> "ignored"
    [] message.target # NoTarget /\ ~hasTabs(c) -> "wrongContext"
    [] message.target # NoTarget -> "forward"
    [] ~HandlersHas(map, message.type) -> "noHandler"
    [] OTHER -> "local"

\* onMessageListener, lines 391-404: the response made of handleMessage()'s
\* outcome
ListenerResponse(outcome) ==
  IF outcome.kind = "throw"
  THEN ErrorResponse(ReceiverTagKey, serializeError(outcome.error))
  ELSE ValueResponse(ReceiverTagKey, outcome.value)

\* ---------------------------------------------------------------- state
VARIABLES
  handlers,         \* per context: the registry (a Map as a set of entries)
  armed,            \* per context: onMessageListener is a listener of runtime.onMessage
  stack,            \* the open calls: a call, then the calls forwarding it
  lastReg,          \* the last registerMethods call and what it threw
  lastRecv,         \* the last onMessageListener call and what it did
  firstRegistered   \* per context: the entry first registered under each name

vars == <<handlers, armed, stack, lastReg, lastRecv, firstRegistered>>

\* lastReg and lastRecv are history: they hold the outcome of the most
\* recent registerMethods / onMessageListener call and are cleared when
\* application code starts the next operation. firstRegistered is history
\* too. A call carries its own history (nSend, nSettled, nTabQuery, recvBy,
\* hostError, tabGone, exhausted) next to the state of its retry loop:
\* nSend and nSettled count the sendMessage calls made and settled, and
\* hostError is the message the host rejected the current attempt with.

NoReg == [ctx |-> "", methods |-> <<>>, before |-> {}, threw |-> NoError]
NoRecv ==
  [ctx |-> "", message |-> NoMessage, path |-> "", invoked |-> "",
   answer |-> Undefined, threw |-> NoError, open |-> FALSE]

\* messenger(type, options, target, ...args) called in context c: the call
\* as it stands when messenger returns. Unless the call is answered locally,
\* the first sendMessage(1) has been made by then.
NewCall(origin, c, type, isNotification, target, map) ==
  LET via == Via(c, target)
      fn == HandlersGet(map, type)
  IN [origin |-> origin, ctx |-> c, type |-> type, target |-> target,
      isNotification |-> isNotification, via |-> via,
      pc |-> IF via = "local" THEN "done" ELSE "inflight",
      attemptCount |-> 1, elapsed |-> 0,
      response |-> Undefined, error |-> NoError,
      result |-> CASE via = "local" /\ fn # "" -> HandlerApply(fn)
                   [] via = "local" -> Throw(ErrNoLocalHandler(type))
                   [] ~UsesRetryLoop(isNotification) -> Void
                   [] OTHER -> Pending,
      invoked |-> IF via = "local" THEN fn ELSE "",
      nSend |-> IF via = "local" THEN 0 ELSE 1,
      nTabQuery |-> 0, recvBy |-> "",
      tabGone |-> FALSE, exhausted |-> FALSE,
      nSettled |-> 0, hostError |-> <<>>]

\* pRetry rejecting with error and scheduling another attempt all the same
RejectAndRetry(f, error) ==
  [f EXCEPT !.pc = "backoff", !.error = error,
            !.result = Throw(error)]

\* pRetry rejects with error and manageMessage's catch rethrows it
Reject(f, error) ==
  [f EXCEPT !.pc = "done", !.error = error,
            !.result = Throw(CatchError(error, f.target, f.type))]

\* The call while it waits between attempts: the response of the failed
\* attempt is gone with the attempt.
Waiting(f, pc, error) ==
  [f EXCEPT !.pc = pc, !.error = error, !.response = Undefined, !.recvBy = ""]

\* operation.retry(error): the next attempt is scheduled, or the loop gives
\* up with the error of the attempt that just failed
ScheduleRetry(f, error) ==
  IF OperationRetry(f.elapsed, f.attemptCount)
  THEN Waiting(f, "backoff", error)
  ELSE Reject([f EXCEPT !.exhausted = TRUE], error)

\* onFailedAttempt never translating the closed-channel message
IsTargetClosedEarlyNever(error) == FALSE

\* onFailedAttempt, line 123: the host says the channel closed early
IsTargetClosedEarly(error) == error.message = _errorTargetClosedEarly

\* onFailedAttempt(error), lines 122-147, up to its await
Failed(f, error) ==
  IF IsTargetClosedEarly(error)
  THEN Reject(f, Error(errorTargetClosedEarly))
  ELSE IF ShouldRetry(f.target, error)
       THEN IF AsksTabExists(f.ctx, f.target)
            THEN Waiting(f, "tabQuery", error)
            ELSE ScheduleRetry(f, error)
       ELSE Reject(f, error)

\* manageConnection, lines 71-73: the notification's promise is dropped and
\* its rejection only logged
NotificationSettled(f, response, error) ==
  [f EXCEPT !.pc = "done", !.response = response, !.error = error]

\* The call f once its delivery attempt resolved with response, dt later:
\* the attempt's body (lines 85-116) and what follows it without a pause.
Resolved(f, response, dt) ==
  LET s == [f EXCEPT !.nSettled = @ + 1] IN
  IF ~UsesRetryLoop(f.isNotification)
  THEN NotificationSettled(s, response, NoError)
  ELSE LET g == [s EXCEPT !.response = response, !.elapsed = Later(@, dt)] IN
       IF isMessengerResponse(response)
       THEN [g EXCEPT !.pc = "done", !.result = ResponseResult(response)]
       ELSE Failed(g, AttemptError(response, f.target, f.type))

\* The call f once its delivery attempt rejected with error, dt later.
Rejected(f, error, dt) ==
  LET s == [f EXCEPT !.nSettled = @ + 1, !.hostError = error.message] IN
  IF ~UsesRetryLoop(f.isNotification)
  THEN NotificationSettled(s, Undefined, error)
  ELSE Failed([s EXCEPT !.elapsed = Later(@, dt)], error)

\* onMessageListener(message, sender) in context c: what it did. A forward
\* leaves the answer open until the call it issues has settled.
onMessageListener(c, message, map) ==
  LET path == ListenerPath(c, message, map)
      fn == HandlersGet(map, message.type)
      base == [ctx |-> c, message |-> message, path |-> path, invoked |-> "",
               answer |-> Undefined, threw |-> NoError, open |-> FALSE]
  IN CASE path = "wrongContext" ->
            [base EXCEPT !.threw = ErrWrongContext(message.type, message.target)]
       [] path = "forward" -> [base EXCEPT !.open = TRUE]
       [] path = "local" ->
            [base EXCEPT !.invoked = fn,
                         !.answer = ListenerResponse(HandlerApply(fn))]
       [] OTHER -> base

\* getContentScriptMethod(type)(target, ...args) in the forwarding context:
\* a new outbound call to the envelope's target, method and arguments kept
ForwardCall(c, message, map) ==
  NewCall("forward", c, message.type, FALSE, message.target, map)

Init ==
  /\ handlers = [c \in Contexts |-> {}]
  /\ armed = [c \in Contexts |-> FALSE]
  /\ stack = <<>>
  /\ lastReg = NoReg
  /\ lastRecv = NoRecv
  /\ firstRegistered = [c \in Contexts |-> {}]

Top == stack[Len(stack)]
SetTop(f) == stack' = [stack EXCEPT ![Len(stack)] = f]

\* ------------------------------------------------------- registerMethods
\* Contexts register while no call is open (at startup, or between calls).
\* The listener is added (line 418) only when the loop did not throw;
\* "browser" in globalThis holds in every context of the model.
RegisterMethods(c, methods) ==
  LET r == RegisterLoop(handlers[c], methods, 1) IN
  /\ stack = <<>>
  /\ handlers' = [handlers EXCEPT ![c] = r.map]
  /\ armed' = [armed EXCEPT ![c] = @ \/ r.threw = NoError]
  /\ firstRegistered' =
       [firstRegistered EXCEPT
          ![c] = @ \cup {e \in r.map : ~HandlersHas(@, e[1])}]
  /\ lastReg' = [ctx |-> c, methods |-> methods, before |-> handlers[c],
                 threw |-> r.threw]
  /\ lastRecv' = NoRecv
  /\ UNCHANGED stack

\* ------------------------------------------------------------- messenger
\* Application code in context c calls messenger.
Messenger(c, type, isNotification, target) ==
  /\ stack = <<>>
  /\ stack' = <<NewCall("app", c, type, isNotification, target, handlers[c])>>
  /\ lastReg' = NoReg
  /\ lastRecv' = NoRecv
  /\ UNCHANGED <<handlers, armed, firstRegistered>>

\* The caller has seen the call settle.
Settled ==
  /\ Len(stack) = 1
  /\ Top.origin = "app"
  /\ Top.pc = "done"
  /\ stack' = <<>>
  /\ UNCHANGED <<handlers, armed, lastReg, lastRecv, firstRegistered>>

\* ------------------------------------------------------------- the host
\* What browser.runtime.sendMessage / browser.tabs.sendMessage may reject
\* with, and what listeners the model does not hold may answer.
HostErrors ==
  {_errorNonExistingTarget, _errorTargetClosedEarly, NoHandlersRegistered,
   OtherHostError}
HostReplies ==
  {Undefined, Primitive, ValueResponse("", "A"),
   ValueResponse(SenderTagKey, "A"),
   ErrorResponse(SenderTagKey, serializeError(CustomError)),
   ValueResponse(ReceiverTagKey, "A")}

\* The host routes the envelope of call f to the listener of context r.
Routes(f, r) ==
  /\ armed[r]
  /\ r # f.ctx
  /\ IF f.via = "tabs" THEN r = "contentScript" /\ f.target = tabTarget
     ELSE r = "background"

Envelope(f) == makeMessage(f.type, f.target, f.isNotification)

\* The delivery attempt is rejected by the host.
HostRejects(error, dt) ==
  /\ stack # <<>>
  /\ Top.pc = "inflight"
  /\ SetTop(Rejected(Top, Error(error), dt))
  /\ UNCHANGED <<handlers, armed, lastReg, lastRecv, firstRegistered>>

\* The delivery attempt is answered by a listener the model does not hold,
\* or by none.
HostAnswers(response, dt) ==
  /\ stack # <<>>
  /\ Top.pc = "inflight"
  /\ SetTop(Resolved(Top, response, dt))
  /\ UNCHANGED <<handlers, armed, lastReg, lastRecv, firstRegistered>>

\* The envelope reaches onMessageListener in context r, which answers,
\* stays silent, throws, or forwards by a call of its own. An error the
\* listener throws reaches the sender as a rejection with an Error of the
\* same message (the class is lost on the way).
HostDelivers(r, dt) ==
  /\ stack # <<>>
  /\ Top.pc = "inflight"
  /\ Routes(Top, r)
  /\ LET f == [Top EXCEPT !.recvBy = r]
         did == onMessageListener(r, Envelope(Top), handlers[r])
     IN /\ lastRecv' = did
        /\ CASE did.path = "forward" ->
                  /\ Len(stack) < MaxDepth
                  /\ stack' = Append([stack EXCEPT ![Len(stack)] = f],
                                     ForwardCall(r, did.message, handlers[r]))
             [] did.path = "wrongContext" ->
                  SetTop(Rejected(f, Error(did.threw.message), dt))
             [] OTHER -> SetTop(Resolved(f, did.answer, dt))
  /\ UNCHANGED <<handlers, armed, lastReg, firstRegistered>>

\* the envelope the listener that issued the forwarded call f had received
ForwardedMessage(f) ==
  [isObject |-> TRUE, tagKey |-> ReceiverTagKey, typeIsString |-> TRUE,
   type |-> f.type, argsIsArray |-> TRUE, target |-> f.target,
   isNotification |-> FALSE]

\* The call a listener forwarded with has settled: the listener answers.
\* lastRecv is that listener's call again, whatever was received since.
ListenerResponds(dt) ==
  /\ stack # <<>>
  /\ Top.origin = "forward"
  /\ Top.pc = "done"
  /\ LET answer == ListenerResponse(Top.result) IN
     /\ lastRecv' = [ctx |-> Top.ctx, message |-> ForwardedMessage(Top),
                     path |-> "forward", invoked |-> "", answer |-> answer,
                     threw |-> NoError, open |-> FALSE]
     /\ IF Len(stack) = 1 THEN stack' = <<>>
        ELSE stack' = [SubSeq(stack, 1, Len(stack) - 1) EXCEPT
                         ![Len(stack) - 1] = Resolved(@, answer, dt)]
  /\ UNCHANGED <<handlers, armed, lastReg, firstRegistered>>

\* A message of some other sender reaches onMessageListener in context r.
Payloads ==
  {NoMessage} \cup
  [isObject : {TRUE}, tagKey : TagKeys, typeIsString : BOOLEAN, type : Methods,
   argsIsArray : BOOLEAN, target : Targets \cup {NoTarget},
   isNotification : {FALSE}]

HostDeliversOther(r, message) ==
  /\ stack = <<>>
  /\ armed[r]
  /\ LET did == onMessageListener(r, message, handlers[r]) IN
     /\ lastRecv' = did
     /\ IF did.path = "forward"
        THEN stack' = <<ForwardCall(r, message, handlers[r])>>
        ELSE UNCHANGED stack
  /\ lastReg' = NoReg
  /\ UNCHANGED <<handlers, armed, firstRegistered>>

\* ------------------------------------------------------- the retry loop
\* doesTabExist(target.tabId) settles (lines 138-141).
DoesTabExist(exists) ==
  /\ stack # <<>>
  /\ Top.pc = "tabQuery"
  /\ LET f == [Top EXCEPT !.nTabQuery = @ + 1] IN
     SetTop(IF exists THEN ScheduleRetry(f, f.error)
            ELSE Reject([f EXCEPT !.tabGone = TRUE], Error(errorTabDoesntExist)))
  /\ UNCHANGED <<handlers, armed, lastReg, lastRecv, firstRegistered>>

\* The backoff delay is over: the next attempt calls sendMessage.
NextAttempt ==
  /\ stack # <<>>
  /\ Top.pc = "backoff"
  /\ SetTop([Top EXCEPT !.pc = "inflight",
                        !.elapsed = Later(@, Timeout(Top.attemptCount)),
                        !.attemptCount = @ + 1,
                        !.nSend = @ + 1,
                        !.error = NoError,
                        !.hostError = <<>>])
  /\ UNCHANGED <<handlers, armed, lastReg, lastRecv, firstRegistered>>

Next ==
  \/ \E c \in Contexts, methods \in Batches : RegisterMethods(c, methods)
  \/ \E c \in Contexts, type \in Methods, isNotification \in BOOLEAN,
        target \in Targets : Messenger(c, type, isNotification, target)
  \/ Settled
  \/ \E error \in HostErrors, dt \in Durations : HostRejects(error, dt)
  \/ \E response \in HostReplies, dt \in Durations : HostAnswers(response, dt)
  \/ \E r \in Contexts, dt \in Durations : HostDelivers(r, dt)
  \/ \E dt \in Durations : ListenerResponds(dt)
  \/ \E r \in Contexts, message \in Payloads : HostDeliversOther(r, message)
  \/ \E exists \in BOOLEAN : DoesTabExist(exists)
  \/ NextAttempt

Spec == Init /\ [][Next]_vars

\* The host settles every sendMessage and every tabs.get it was asked for,
\* and the timer of a backoff delay fires.
HostSettles ==
  \/ \E error \in HostErrors, dt \in Durations : HostRejects(error, dt)
  \/ \E response \in HostReplies, dt \in Durations : HostAnswers(response, dt)
  \/ \E r \in Contexts, dt \in Durations : HostDelivers(r, dt)
TabQuerySettles == \E exists \in BOOLEAN : DoesTabExist(exists)

FairSpec ==
  /\ Spec
  /\ WF_vars(HostSettles)
  /\ WF_vars(TabQuerySettles)
  /\ WF_vars(NextAttempt)

\* ================================================================ claims
Calls == {stack[i] : i \in DOMAIN stack}
\* the calls that went through the bus and the retry loop
BusCalls == {f \in Calls : f.via # "local" /\ ~f.isNotification}
\* a response the caller takes for a MessengerResponse (line 38)
WellFormed(response) ==
  response.kind = "object" /\ response.tagKey = "__webextMessenger"
\* a tagged envelope as the receiver recognizes it (lines 343-348)
TaggedEnvelope(message) ==
  /\ message.isObject
  /\ message.typeIsString
  /\ message.tagKey = "__webext_messenger__"
  /\ message.argsIsArray

\* the context a target names
ResolvesTo(target, r) ==
  \/ target = backgroundTarget /\ r = "background"
  \/ target = tabTarget /\ r = "contentScript"

\* C1: request/response fidelity. A settled non-notification call whose
\* envelope reached onMessageListener in the context R its target resolves
\* to, where a handler that returns a value is registered under the method
\* name, and whose reply came back, has returned exactly that value.
C1_Fidelity ==
  \A f \in BusCalls :
    (/\ f.pc = "done"
     /\ f.recvBy # ""
     /\ ResolvesTo(f.target, f.recvBy)
     /\ HandlersGet(handlers[f.recvBy], f.type) = "returnsA")
    => f.result = Return("A")

\* C2: a notification call never surfaces a failure: whatever the target
\* and the outcome, messenger neither throws nor returns a promise that
\* rejects.
C2_NotificationNeverFails ==
  \A f \in Calls : f.isNotification => f.result.kind # "throw"

\* C3 as claimed: every notification call invokes the host delivery
\* primitive exactly once and never asks whether the tab exists.
C3_ExactlyOnce ==
  \A f \in Calls : f.isNotification => f.nSend = 1 /\ f.nTabQuery = 0

\* C3 as amended: a notification call that is not answered from the local
\* registry invokes the host delivery primitive exactly once, whatever the
\* outcome of that attempt, and never asks whether the tab exists; one that
\* is answered from the local registry never invokes it.
C3_OnceUnlessLocal ==
  \A f \in Calls :
    f.isNotification =>
      /\ f.nSend = (IF f.via = "local" THEN 0 ELSE 1)
      /\ f.attemptCount = 1
      /\ f.nTabQuery = 0
      /\ f.pc \in {"inflight", "done"}

\* A notification whose single attempt was rejected with the transient
\* host error has settled after one delivery.
C3_Witness ==
  \E f \in Calls :
    /\ f.isNotification
    /\ f.pc = "done"
    /\ f.error.message = _errorNonExistingTarget
    /\ f.target = tabTarget
    /\ f.nSend = 1

\* C4 as claimed: when the retry budget runs out on the transient host
\* error, the call fails with that error.
C4_FailsWithLastTransient ==
  \A f \in BusCalls :
    (f.pc = "done" /\ f.exhausted /\ f.error.message = _errorNonExistingTarget)
    => f.result = Throw(f.error)

\* C4 as amended: a call whose earlier attempts failed and whose last
\* attempt yields a well-formed response with a value returns that value;
\* a call gives up on the transient host error only when the retry budget
\* is exhausted (4000 time-units elapsed, or no retry left), and it then
\* fails with the MessengerError "The target ... was not found" that
\* stands for the last transient error.
C4_RetryToSuccessOrCeiling ==
  \A f \in BusCalls :
    /\ (f.pc = "done" /\ WellFormed(f.response) /\ ~f.response.hasError)
         => f.result = Return(f.response.value)
    /\ (f.pc = "done" /\ f.error.message = _errorNonExistingTarget)
         => /\ f.exhausted
            /\ f.result = Throw(ErrTargetNotFound(f.target, f.type))
    /\ f.exhausted => f.elapsed >= maxRetryTime \/ f.attemptCount > retries
    /\ f.pc = "backoff" => f.elapsed < maxRetryTime

\* Both ends of C4 are reached: a value returned by a later attempt, and a
\* budget that ran out on the transient error.
C4_Witness ==
  \E f \in BusCalls :
    /\ f.pc = "done"
    /\ f.exhausted
    /\ f.attemptCount >= 2
    /\ f.error.message = _errorNonExistingTarget
C4_WitnessSuccess ==
  \E f \in BusCalls :
    f.pc = "done" /\ f.attemptCount >= 3 /\ f.result = Return("A")

\* a reply that is neither undefined nor a tagged response
Foreign(response) == response.kind # "undefined" /\ ~WellFormed(response)

\* C5 as claimed: for every target, an attempt answered by a foreign value
\* ends the call with the Conflict error; the call is not retried.
C5_ConflictTerminal ==
  \A f \in BusCalls :
    f.error = ErrConflict(f.type)
    => f.pc = "done" /\ f.result = Throw(ErrConflict(f.type))

\* C5 as amended: an attempt answered by a foreign value fails with
\* Conflict and the foreign value is never the call's result; when the
\* target is the background page the call then fails with Conflict at once
\* and is not retried; for any other target Conflict is retried like the
\* other MessengerErrors, and is the call's error only once the retry
\* budget is exhausted.
C5_ConflictTerminalForBackground ==
  \A f \in BusCalls :
    /\ (f.pc = "done" /\ Foreign(f.response)) => f.result.kind = "throw"
    /\ f.result.kind = "return"
         => WellFormed(f.response) /\ f.result.value = f.response.value
    /\ (f.target.page = "background" /\ f.error = ErrConflict(f.type))
         => /\ f.pc = "done"
            /\ f.result = Throw(ErrConflict(f.type))
            /\ Foreign(f.response)
            /\ ~f.exhausted
    /\ (f.target.page # "background" /\ f.error = ErrConflict(f.type)
          /\ f.pc = "done")
         => f.exhausted /\ f.result = Throw(ErrConflict(f.type))

\* A call to the background page was answered by a third-party listener on
\* its first attempt and has failed with Conflict.
C5_Witness ==
  \E f \in BusCalls :
    /\ f.target = backgroundTarget
    /\ f.pc = "done"
    /\ f.response = ValueResponse("", "A")
    /\ f.result = Throw(ErrConflict(f.type))
    /\ f.nSend = 1

\* what a caller makes of a receiver's answer
ResultOf(answer) ==
  IF answer.hasError THEN Throw(deserializeError(answer.error))
  ELSE Return(answer.value)

\* C6: forwarding is transparent. A settled call whose envelope (which
\* carries its target) was received by a context with host tab addressing
\* was forwarded by that context, and ends the way the forwarded call ended.
C6_ForwardTransparent ==
  \A f \in BusCalls :
    (f.pc = "done" /\ f.recvBy # "" /\ hasTabs(f.recvBy))
    => /\ lastRecv.ctx = f.recvBy
       /\ lastRecv.path = "forward"
       /\ f.result = ResultOf(lastRecv.answer)

\* C7: a tagged envelope that carries a target and reaches a context
\* without host tab addressing makes the receiver throw the "sent to wrong
\* context" MessengerError at once: no handler is invoked, nothing is
\* answered and no call is issued.
C7_WrongContextThrows ==
  (/\ lastRecv.ctx # ""
   /\ ~hasTabs(lastRecv.ctx)
   /\ TaggedEnvelope(lastRecv.message)
   /\ lastRecv.message.target # NoTarget)
  => /\ lastRecv.threw =
          ErrWrongContext(lastRecv.message.type, lastRecv.message.target)
     /\ lastRecv.invoked = ""
     /\ lastRecv.answer = Undefined
     /\ ~lastRecv.open
     /\ \A f \in Calls : f.origin # "forward"

\* The content script has received a tagged envelope addressed to a tab.
C7_Witness ==
  /\ lastRecv.ctx = "contentScript"
  /\ TaggedEnvelope(lastRecv.message)
  /\ lastRecv.message.target = tabTarget
  /\ lastRecv.threw.instance = "MessengerError"
  /\ HandlersHas(handlers["contentScript"], lastRecv.message.type)

\* the names of the last batch that were in the registry before the call
Duplicates ==
  {i \in DOMAIN lastReg.methods :
     \E e \in lastReg.before : e[1] = lastReg.methods[i][1]}

\* C8: registerMethods given a name that is already registered throws the
\* "Handler already set" MessengerError for the first such name, and
\* otherwise does not throw; every entry that was registered stays as it
\* was first registered, it is the one the receiver invokes, and the
\* registry never holds two entries under one name.
C8_DuplicateRegistration ==
  /\ \A c \in Contexts :
       /\ firstRegistered[c] = handlers[c]
       /\ \A e1, e2 \in handlers[c] : e1[1] = e2[1] => e1 = e2
  /\ lastReg.ctx # "" =>
       /\ lastReg.before \subseteq handlers[lastReg.ctx]
       /\ IF Duplicates = {}
          THEN lastReg.threw = NoError
          ELSE \E i \in Duplicates :
                 /\ \A j \in Duplicates : i <= j
                 /\ lastReg.threw = ErrAlreadySet(lastReg.methods[i][1])
  /\ lastRecv.path = "local" =>
       <<lastRecv.message.type, lastRecv.invoked>> \in firstRegistered[lastRecv.ctx]

\* A second registration of a name with another function has thrown.
C8_Witness ==
  /\ lastReg.ctx = "background"
  /\ lastReg.methods = << <<"getA", "throwsE">> >>
  /\ lastReg.threw = ErrAlreadySet("getA")
  /\ <<"getA", "returnsA">> \in handlers["background"]

\* C9: error round-trip. A settled call whose envelope reached the
\* listener of the context its target resolves to, where the handler
\* registered under the method name throws an error, has thrown an error
\* of the same name and message.
C9_ErrorRoundTrip ==
  \A f \in BusCalls :
    (/\ f.pc = "done"
     /\ f.recvBy # ""
     /\ ResolvesTo(f.target, f.recvBy)
     /\ HandlersGet(handlers[f.recvBy], f.type) = "throwsE")
    => /\ f.result.kind = "throw"
       /\ f.result.error.name = CustomError.name
       /\ f.result.error.message = CustomError.message

\* The response mapping itself (lines 159-165) is as C9 says: a call that
\* ended on a well-formed response threw the deserialized error if the
\* response carries one, and returned the value otherwise.
C9_ResponseMapping ==
  \A f \in BusCalls :
    (f.pc = "done" /\ WellFormed(f.response))
    => IF f.response.hasError
       THEN /\ f.result.kind = "throw"
            /\ f.result.error.name = f.response.error.name
            /\ f.result.error.message = f.response.error.message
       ELSE f.result = Return(f.response.value)

\* C10 as claimed: whenever a call to a numeric tabId is about to retry,
\* the liveness query was made for the attempt that failed.
C10_QueryBeforeAnyRetry ==
  \A f \in BusCalls :
    (TabIdIsNumber(f.target) /\ f.pc = "backoff")
    => f.nTabQuery = f.attemptCount

\* C10 as amended: in a calling context that has browser.tabs, whenever an
\* attempt of a call to a numeric tabId fails with a retryable failure the
\* liveness query is made before any retry, and if it reports that the tab
\* is gone the call fails with "The tab doesn't exist" and no further
\* attempt is made; a caller without browser.tabs retries without asking.
C10_TargetGoneStopsRetry ==
  \A f \in BusCalls :
    /\ f.nSend = f.attemptCount
    /\ (hasTabs(f.ctx) /\ TabIdIsNumber(f.target)) =>
         /\ f.pc = "backoff" => f.nTabQuery = f.attemptCount
         /\ f.pc = "tabQuery" => f.nTabQuery = f.attemptCount - 1
         /\ f.pc = "inflight" => f.nTabQuery = f.attemptCount - 1
    /\ ~(hasTabs(f.ctx) /\ TabIdIsNumber(f.target)) =>
         f.nTabQuery = 0 /\ ~f.tabGone
    /\ f.tabGone =>
         /\ f.pc = "done"
         /\ f.result = Throw(Error(errorTabDoesntExist))
         /\ f.nTabQuery = f.attemptCount

\* The tab was reported gone after the second attempt had failed.
C10_Witness ==
  \E f \in BusCalls :
    /\ f.tabGone
    /\ f.attemptCount = 2
    /\ f.nSend = 2
    /\ f.result = Throw(Error(errorTabDoesntExist))

\* C11: TargetClosedEarly is terminal. A call whose delivery attempt the
\* host rejected with the closed-channel message has failed with the Error
\* "The target was closed before receiving a response", whatever its target:
\* it is not waiting for a retry or a tab query, no attempt follows the
\* rejected one, and the retry budget was not what ended it.
C11_ClosedEarlyTerminal ==
  \A f \in BusCalls :
    f.hostError = _errorTargetClosedEarly
    => /\ f.pc = "done"
       /\ f.result = Throw(Error(errorTargetClosedEarly))
       /\ f.nSend = f.nSettled
       /\ f.nTabQuery < f.attemptCount
       /\ ~f.exhausted

\* The second attempt of a call to the background page was rejected with
\* the closed-channel message.
C11_Witness ==
  \E f \in BusCalls :
    /\ f.target = backgroundTarget
    /\ f.hostError = _errorTargetClosedEarly
    /\ f.attemptCount = 2
    /\ f.result = Throw(Error(errorTargetClosedEarly))

\* a host rejection that is neither the closed-channel message nor one of
\* the transient strings
Unrecognized(message) ==
  /\ message # <<>>
  /\ message # _errorTargetClosedEarly
  /\ message # _errorNonExistingTarget
  /\ ~StartsWith(message, "No handlers registered in ")

\* C12 as claimed: an unrecognized delivery failure ends the call at once
\* when the target is not the background page, and is retried when the
\* target is the background page.
C12_UnrecognizedRetriedForBackground ==
  \A f \in BusCalls :
    Unrecognized(f.hostError)
    => IF f.target.page # "background"
       THEN f.pc = "done" /\ f.result = Throw(Error(f.hostError))
       ELSE f.pc # "done" \/ f.exhausted

\* C12 as amended: an unrecognized delivery failure ends the call at once
\* with that failure for every target, the background page included, and
\* no delivery attempt follows it. It is the failures of steps 1-2 (the
\* MessengerErrors the attempt itself throws) that depend on the target:
\* they end a call to the background page at once and are retried for any
\* other target, ending the call only when the retry budget is exhausted.
C12_UnrecognizedNeverRetried ==
  \A f \in BusCalls :
    /\ Unrecognized(f.hostError)
         => /\ f.pc = "done"
            /\ f.result = Throw(Error(f.hostError))
            /\ f.nSend = f.nSettled
            /\ ~f.exhausted
    /\ f.error.instance = "MessengerError"
         => IF f.target.page = "background"
            THEN f.pc = "done" /\ f.result = Throw(f.error) /\ ~f.exhausted
            ELSE /\ f.pc \in {"backoff", "tabQuery", "done"}
                 /\ f.pc = "done" => f.exhausted /\ f.result = Throw(f.error)

\* A call to the background page failed on its first attempt with a host
\* error the policy does not know, and has ended with it.
C12_Witness ==
  \E f \in BusCalls :
    /\ f.target = backgroundTarget
    /\ f.hostError = OtherHostError
    /\ f.nSend = 1
    /\ f.result = Throw(Error(OtherHostError))

\* the errors the caller has for a target that did not answer
HandlerUnavailable(f) ==
  {ErrTargetNotFound(f.target, f.type), ErrNotAvailable(f.target, f.type)}

\* C13: unregistered method at an armed target. A settled non-notification
\* call whose envelope reached the armed listener of the context its target
\* resolves to, where no handler is registered under the method name, was
\* delivered once and has failed with an error of its own kind
\* (HandlerMissing): not one of the errors for a target that did not
\* answer, and not Conflict.
C13_UnregisteredFailsWithHandlerMissing ==
  \A f \in BusCalls :
    (/\ f.pc = "done"
     /\ f.recvBy # ""
     /\ ResolvesTo(f.target, f.recvBy)
     /\ armed[f.recvBy]
     /\ ~HandlersHas(handlers[f.recvBy], f.type))
    => /\ f.nSend = 1
       /\ f.result.kind = "throw"
       /\ f.result.error \notin HandlerUnavailable(f)
       /\ f.result.error # ErrConflict(f.type)

\* C14: local bypass. A call made in the background context with the
\* background page as its target never invokes the host delivery primitive
\* and never enters the retry loop: it has settled when messenger returns,
\* with the result of the handler registered under the method name, which
\* was invoked by messenger itself, or with the "No handler registered
\* locally" MessengerError when the registry has no entry for the name.
C14_LocalBypass ==
  \A f \in Calls :
    (f.ctx = "background" /\ f.target = backgroundTarget)
    => /\ f.nSend = 0
       /\ f.nSettled = 0
       /\ f.nTabQuery = 0
       /\ f.attemptCount = 1
       /\ f.elapsed = 0
       /\ f.pc = "done"
       /\ f.recvBy = ""
       /\ IF HandlersHas(handlers["background"], f.type)
          THEN /\ f.invoked = HandlersGet(handlers["background"], f.type)
               /\ f.result = HandlerApply(f.invoked)
          ELSE /\ f.invoked = ""
               /\ f.result = Throw(ErrNoLocalHandler(f.type))

\* The background context called a method of its own whose handler throws.
C14_Witness ==
  \E f \in Calls :
    /\ f.ctx = "background"
    /\ f.target = backgroundTarget
    /\ ~f.isNotification
    /\ f.invoked = "throwsE"
    /\ f.result = Throw(CustomError)

\* The background context called a method it has not registered.
C14_WitnessNoHandler ==
  \E f \in Calls :
    /\ f.ctx = "background"
    /\ f.target = backgroundTarget
    /\ handlers["background"] # {}
    /\ f.result = Throw(ErrNoLocalHandler(f.type))

\* the error pRetry gave up with, as manageMessage's catch rethrows it
FinalError(f) ==
  IF f.error.message = _errorNonExistingTarget
  THEN ErrTargetNotFound(f.target, f.type)
  ELSE f.error

\* the non-notification call at the bottom of the stack (the one made by
\* application code, or by a receiver that forwards) is open / has settled
CallOpen ==
  /\ stack # <<>>
  /\ ~stack[1].isNotification
  /\ stack[1].pc # "done"
CallSettled == stack # <<>> /\ stack[1].pc = "done"

\* C15 as claimed: when the retry budget is exhausted the call rejects with
\* the last failure of its attempts.
C15_SettlesWithLastFailure ==
  \A f \in BusCalls : f.exhausted => f.result = Throw(f.error)

\* C15 as amended: if the host settles every delivery attempt and every
\* liveness query, every non-notification call eventually settles. The
\* loop makes a bounded number of delivery attempts and schedules none once
\* 4000 time-units have passed; the promise is pending exactly as long as
\* the call is open and a settled call never changes again; when the retry
\* budget is exhausted the call rejects with the last failure, the
\* transient host error being reported as "The target ... was not found".
C15_EventuallySettles ==
  /\ [](\A f \in BusCalls :
          /\ f.nSend <= retries + 1
          /\ f.pc = "backoff" => f.elapsed < maxRetryTime
          /\ (f.pc = "done") <=> (f.result # Pending)
          /\ f.exhausted => f.pc = "done" /\ f.result = Throw(FinalError(f)))
  /\ [][\A i \in DOMAIN stack :
          (stack[i].pc = "done" /\ i \in DOMAIN stack') => stack'[i] = stack[i]]_vars
  /\ CallOpen ~> CallSettled

\* A call gave up after its last attempt had failed with Conflict: the
\* budget ran out on a failure that is rethrown as it is.
C15_Witness ==
  \E f \in BusCalls :
    /\ f.exhausted
    /\ f.attemptCount >= 3
    /\ f.error = ErrConflict(f.type)
    /\ f.result = Throw(f.error)

\* C16: protocol tag on responses. Every response onMessageListener
\* returns for a tagged envelope carries the protocol tag, and it is the
\* tag the caller tests for: the caller takes the response for a
\* MessengerResponse, and a call that ended on a response tagged by the
\* receiver returned its value or threw its error, never Conflict.
C16_ResponseTagged ==
  /\ (lastRecv.ctx # "" /\ lastRecv.answer # Undefined)
       => /\ lastRecv.answer.tagKey # ""
          /\ WellFormed(lastRecv.answer)
  /\ \A f \in BusCalls :
       (f.pc = "done" /\ f.response.kind = "object"
          /\ f.response.tagKey = "__webext_messenger__")
       => f.result = ResultOf(f.response)

\* the call's envelope is handed to a context that has to pass it on: a
\* context without browser.tabs sends a call for a tab through the
\* background page
MustBeForwarded(f) == f.via = "runtime" /\ ~PageInTarget(f.target)

\* C17: envelope target field. The envelope of a call that goes through
\* the bus carries a target exactly when the context that receives it has
\* to forward it; an envelope sent straight to its tab, or to the named
\* page itself, carries none.
C17_TargetOnlyWhenForwarded ==
  \A f \in Calls :
    f.via # "local" => (Envelope(f).target # NoTarget <=> MustBeForwarded(f))

\* the payload has the shape of an envelope and carries the tag the caller
\* attaches (line 52)
CallerEnvelope(message) ==
  /\ message.isObject
  /\ message.typeIsString
  /\ message.tagKey = "__webextMessenger"
  /\ message.argsIsArray

\* the receiver let the payload pass: nothing answered, thrown, invoked or
\* sent
Ignored(recv) ==
  /\ recv.path = "ignored"
  /\ recv.answer = Undefined
  /\ recv.threw = NoError
  /\ recv.invoked = ""
  /\ ~recv.open

\* C18: foreign payloads are ignored. Every payload that is not an
\* envelope carrying the caller's tag is ignored by the receiver (nothing
\* returned, answered, thrown, invoked or sent), and the envelopes that
\* carry the caller's tag are the ones treated as calls.
C18_OnlyCallerEnvelopesAreCalls ==
  lastRecv.ctx # "" => (Ignored(lastRecv) <=> ~CallerEnvelope(lastRecv.message))

\* The receiver's own test is as C18 says: a payload that fails
\* isMessengerMessage (no object, no string type, no array args, or not
\* the receiver's tag) is ignored.
C18_ForeignIgnored ==
  (lastRecv.ctx # "" /\ ~TaggedEnvelope(lastRecv.message)) => Ignored(lastRecv)

\* the calls that stay on the stack over a step
Kept == DOMAIN stack \cap DOMAIN stack'

\* C19: attempt sequencing within one call. The attempts of a call are
\* numbered 1, 2, 3, ... as they are made, and at most one of them is in
\* flight: none while the call waits or has settled. A step that starts an
\* attempt finds the previous one settled with a failure the retry policy
\* allowed and the backoff delay running, and gives the new attempt the
\* next number; no attempt is started once the call has settled.
C19_AttemptsInSequence ==
  /\ [](\A f \in Calls :
          f.via # "local" =>
            /\ f.nSend = f.attemptCount
            /\ f.nSend - f.nSettled = (IF f.pc = "inflight" THEN 1 ELSE 0)
            /\ (f.result.kind \in {"return", "throw"}) => f.pc = "done")
  /\ [][\A i \in Kept :
          stack'[i].nSend # stack[i].nSend =>
            /\ stack[i].pc = "backoff"
            /\ stack[i].result = Pending
            /\ stack[i].nSettled = stack[i].nSend
            /\ ~IsTargetClosedEarly(stack[i].error)
            /\ ShouldRetry(stack[i].target, stack[i].error)
            /\ stack[i].elapsed < maxRetryTime
            /\ stack'[i].pc = "inflight"
            /\ stack'[i].nSend = stack[i].nSend + 1
            /\ stack'[i].attemptCount = stack'[i].nSend]_vars

\* The third attempt of a call is in flight: two have settled.
C19_Witness ==
  \E f \in BusCalls :
    f.pc = "inflight" /\ f.attemptCount = 3 /\ f.nSettled = 2

Prefix ==
  {lastReg.methods[i] : i \in {j \in DOMAIN lastReg.methods :
                                 \A d \in Duplicates : j < d}}

====
